---- MODULE Spec2Model ----
(***************************************************************************)
(* Model of limbs.py: schoolbook multiplication of two 2-limb operands     *)
(* into a 4-limb product, followed by bit-serial restoring division of the *)
(* 4-limb value by a divisor d.                                            *)
(*                                                                         *)
(* Python integers are unbounded, so no operation below wraps.  The limb  *)
(* width (64 in the script) is scaled down to LimbBits so that the whole  *)
(* operand space can be enumerated; every other quantity (SCALE, the loop *)
(* bounds, the operand ranges) is derived from it exactly as in the script.*)
(***************************************************************************)
EXTENDS Integers, Sequences, FiniteSets, TLC

\* Width of a limb in bits (64 in the script: SCALE = 2**64, range(0, 64)).
LimbBits == 2

\* Bits by which an out-of-range operand may exceed the 2-limb width.
ExtraBits == 1

\* Number of limbs of the product and of the quotient: range(0, 4).
NumLimbs == 4

SCALE == 2 ^ LimbBits

\* Operands and divisor are 2-limb values: [0, SCALE^2).
OperandLimit == SCALE * SCALE

\* Out-of-range operands reach up to WideLimit - 1.
WideLimit == OperandLimit * (2 ^ ExtraBits)

TotalBits == NumLimbs * LimbBits

VARIABLES a, b, d,
          a_h, a_l, b_h, b_l,
          limbs,
          r, q_limbs, q_limb, i, j,
          qoutient,
          pc,
          bit, shifted, visited

\* bit, shifted and visited record, for the last inner-loop iteration, the
\* extracted bit and the value of r after line 70, and, for the whole run, the
\* (limb_idx, divisor_idx) pairs in the order the loop visited them.
vars == <<a, b, d, a_h, a_l, b_h, b_l, limbs, r, q_limbs, q_limb, i, j,
          qoutient, pc, bit, shifted, visited>>

----------------------------------------------------------------------------
(* Pure helpers *)

\* Variant of get_high_low that reduces the high part to one limb.
get_high_low_Truncated(num) == <<(num \div SCALE) % SCALE, num % SCALE>>

\* get_high_low(num): (num // SCALE, num % SCALE), as a pair <<high, low>>.
get_high_low(num) == <<num \div SCALE, num % SCALE>>

\* The four partial products of the decomposed operands.
pp_ll == a_l * b_l
pp_lh == a_l * b_h
pp_hl == a_h * b_l
pp_hh == a_h * b_h

\* limb_sum_1 = pp_lh_l + pp_hl_l + pp_ll_h
limb_sum_1 == get_high_low(pp_lh)[2] + get_high_low(pp_hl)[2] + get_high_low(pp_ll)[1]

carry_1 == limb_sum_1 \div SCALE

\* limb_sum_2 = pp_lh_h + pp_hl_h + pp_hh_l + carry_1
limb_sum_2 == get_high_low(pp_lh)[1] + get_high_low(pp_hl)[1] + get_high_low(pp_hh)[2] + carry_1

carry_2 == limb_sum_2 \div SCALE

\* Variant of the carry chain that drops carry_2 from the top limb.
ProductLimbs_NoTopCarry ==
    << get_high_low(pp_ll)[2],
       limb_sum_1 % SCALE,
       limb_sum_2 % SCALE,
       get_high_low(pp_hh)[1] >>

\* Variant of the carry chain that never reduces limb 2: the sum is appended
\* whole and nothing is carried into limb 3.
ProductLimbs_Unreduced ==
    << get_high_low(pp_ll)[2],
       limb_sum_1 % SCALE,
       limb_sum_2,
       get_high_low(pp_hh)[1] >>

\* The list built by the four limbs.append calls (Python index k is k + 1 here).
ProductLimbs ==
    << get_high_low(pp_ll)[2],
       limb_sum_1 % SCALE,
       limb_sum_2 % SCALE,
       get_high_low(pp_hh)[1] + carry_2 >>

\* limbs[3] * SCALE**3 + limbs[2] * SCALE**2 + limbs[1] * SCALE + limbs[0]
LimbValue(ls) == ls[4] * SCALE^3 + ls[3] * SCALE^2 + ls[2] * SCALE + ls[1]

\* Variant of the quotient assembly that weights q_limbs like limbs.
QuotientValue_Reversed(qs) == qs[4] * SCALE^3 + qs[3] * SCALE^2 + qs[2] * SCALE + qs[1]

\* q_limbs[0] * SCALE**3 + q_limbs[1] * SCALE**2 + q_limbs[2] * SCALE + q_limbs[3]
QuotientValue(qs) == qs[1] * SCALE^3 + qs[2] * SCALE^2 + qs[3] * SCALE + qs[4]

\* Variant of the bit extraction without the final % 2.
ExtractBit_NoMask(ls, limb_idx, divisor_idx) == ls[limb_idx + 1] \div (2 ^ divisor_idx)

\* (limbs[limb_idx] // (2 ** divisor_idx)) % 2
ExtractBit(ls, limb_idx, divisor_idx) == (ls[limb_idx + 1] \div (2 ^ divisor_idx)) % 2

\* The reference value a * b of the two assertions.
Reference == a * b

----------------------------------------------------------------------------
(* Initial states *)

Blank ==
    /\ a_h = 0 /\ a_l = 0 /\ b_h = 0 /\ b_l = 0
    /\ r = 0 /\ q_limbs = <<>> /\ q_limb = 0 /\ i = 0 /\ j = 0
    /\ qoutient = 0
    /\ bit = 0 /\ shifted = 0 /\ visited = <<>>

\* The script with its three literals replaced by any operands in range and
\* any divisor below 2^(2*LimbBits), zero included.
Init ==
    /\ a \in 0 .. (OperandLimit - 1)
    /\ b \in 0 .. (OperandLimit - 1)
    /\ d \in 0 .. (OperandLimit - 1)
    /\ limbs = <<>>
    /\ pc = "decompose"
    /\ Blank

\* The divider entered with any four in-range limbs as the dividend p; the
\* reference value a * b of the final assertion is p.
InitDivider ==
    /\ limbs \in [1 .. NumLimbs -> 0 .. (SCALE - 1)]
    /\ a = LimbValue(limbs)
    /\ b = 1
    /\ d \in 0 .. (OperandLimit - 1)
    /\ pc = "start_divide"
    /\ Blank

\* The boundary operands: the script with a = 0 or a = 1, and the divider with
\* dividend 0 or divisor 1.
InitBoundary ==
    \/ /\ Init
       /\ a \in {0, 1}
    \/ /\ InitDivider
       /\ (d = 1 \/ (LimbValue(limbs) = 0 /\ d > 0))

\* The multiplier entered with operands that may exceed the 2-limb width.
InitWide ==
    /\ a \in 0 .. (WideLimit - 1)
    /\ b \in 0 .. (WideLimit - 1)
    /\ d = 1
    /\ limbs = <<>>
    /\ pc = "decompose"
    /\ Blank

----------------------------------------------------------------------------
(* Actions *)

divVars == <<r, q_limbs, q_limb, i, j, qoutient, bit, shifted, visited>>

\* Lines 13-17: decompose both operands and check the decomposition.
Decompose ==
    /\ pc = "decompose"
    /\ a_h' = get_high_low(a)[1]
    /\ a_l' = get_high_low(a)[2]
    /\ b_h' = get_high_low(b)[1]
    /\ b_l' = get_high_low(b)[2]
    /\ pc' = IF /\ a_h' * SCALE + a_l' = a
                /\ b_h' * SCALE + b_l' = b
             THEN "multiply"
             ELSE "decompose_assert_failed"
    /\ UNCHANGED <<a, b, d, limbs>>
    /\ UNCHANGED divVars

\* Lines 30-51: partial products and the carry chain into four limbs.
Multiply ==
    /\ pc = "multiply"
    /\ limbs' = ProductLimbs
    /\ pc' = "check_product"
    /\ UNCHANGED <<a, b, d, a_h, a_l, b_h, b_l>>
    /\ UNCHANGED divVars

\* Lines 53-59: the product assertion.
CheckProduct ==
    /\ pc = "check_product"
    /\ pc' = IF LimbValue(limbs) = Reference THEN "start_divide" ELSE "product_assert_failed"
    /\ UNCHANGED <<a, b, d, a_h, a_l, b_h, b_l, limbs>>
    /\ UNCHANGED divVars

\* Lines 62-67: r = 0, q_limbs = [], and entry into the first pass.
StartDivide ==
    /\ pc = "start_divide"
    /\ r' = 0
    /\ q_limbs' = <<>>
    /\ i' = 0
    /\ q_limb' = 0
    /\ j' = 0
    /\ pc' = "bit_step"
    /\ UNCHANGED <<a, b, d, a_h, a_l, b_h, b_l, limbs, qoutient, bit, shifted, visited>>

\* Variant of the inner-loop iteration that compares with r > d.
BitStep_StrictCompare ==
    /\ pc = "bit_step"
    /\ LET limb_idx == 3 - i
           divisor_idx == (LimbBits - 1) - j
           b1 == ExtractBit(limbs, limb_idx, divisor_idx)
           r1 == (r * 2) + b1
       IN  /\ bit' = b1
           /\ shifted' = r1
           /\ visited' = Append(visited, <<limb_idx, divisor_idx>>)
           /\ IF r1 > d
              THEN /\ r' = r1 - d
                   /\ q_limb' = q_limb + 2 ^ divisor_idx
              ELSE /\ r' = r1
                   /\ q_limb' = q_limb
    /\ j' = j + 1
    /\ pc' = IF j + 1 < LimbBits THEN "bit_step" ELSE "append"
    /\ UNCHANGED <<a, b, d, a_h, a_l, b_h, b_l, limbs, q_limbs, i, qoutient>>

\* Variant of the inner-loop iteration that takes the limbs in ascending order.
BitStep_AscendingLimbs ==
    /\ pc = "bit_step"
    /\ LET limb_idx == i
           divisor_idx == (LimbBits - 1) - j
           b1 == ExtractBit(limbs, limb_idx, divisor_idx)
           r1 == (r * 2) + b1
       IN  /\ bit' = b1
           /\ shifted' = r1
           /\ visited' = Append(visited, <<limb_idx, divisor_idx>>)
           /\ IF r1 >= d
              THEN /\ r' = r1 - d
                   /\ q_limb' = q_limb + 2 ^ divisor_idx
              ELSE /\ r' = r1
                   /\ q_limb' = q_limb
    /\ j' = j + 1
    /\ pc' = IF j + 1 < LimbBits THEN "bit_step" ELSE "append"
    /\ UNCHANGED <<a, b, d, a_h, a_l, b_h, b_l, limbs, q_limbs, i, qoutient>>

\* Variant of the inner-loop iteration that writes quotient bit j instead of
\* bit divisor_idx.
BitStep_WrongPosition ==
    /\ pc = "bit_step"
    /\ LET limb_idx == 3 - i
           divisor_idx == (LimbBits - 1) - j
           b1 == ExtractBit(limbs, limb_idx, divisor_idx)
           r1 == (r * 2) + b1
       IN  /\ bit' = b1
           /\ shifted' = r1
           /\ visited' = Append(visited, <<limb_idx, divisor_idx>>)
           /\ IF r1 >= d
              THEN /\ r' = r1 - d
                   /\ q_limb' = q_limb + 2 ^ j
              ELSE /\ r' = r1
                   /\ q_limb' = q_limb
    /\ j' = j + 1
    /\ pc' = IF j + 1 < LimbBits THEN "bit_step" ELSE "append"
    /\ UNCHANGED <<a, b, d, a_h, a_l, b_h, b_l, limbs, q_limbs, i, qoutient>>

\* Variant of the inner-loop iteration that sets the quotient bit without
\* reducing r.
BitStep_NoSubtract ==
    /\ pc = "bit_step"
    /\ LET limb_idx == 3 - i
           divisor_idx == (LimbBits - 1) - j
           b1 == ExtractBit(limbs, limb_idx, divisor_idx)
           r1 == (r * 2) + b1
       IN  /\ bit' = b1
           /\ shifted' = r1
           /\ visited' = Append(visited, <<limb_idx, divisor_idx>>)
           /\ IF r1 >= d
              THEN /\ r' = r1
                   /\ q_limb' = q_limb + 2 ^ divisor_idx
              ELSE /\ r' = r1
                   /\ q_limb' = q_limb
    /\ j' = j + 1
    /\ pc' = IF j + 1 < LimbBits THEN "bit_step" ELSE "append"
    /\ UNCHANGED <<a, b, d, a_h, a_l, b_h, b_l, limbs, q_limbs, i, qoutient>>

\* Lines 67-74: one iteration of the inner loop; j counts the iterations of the
\* current pass that have run.
BitStep ==
    /\ pc = "bit_step"
    /\ LET limb_idx == 3 - i
           divisor_idx == (LimbBits - 1) - j
           b1 == ExtractBit(limbs, limb_idx, divisor_idx)
           r1 == (r * 2) + b1
       IN  /\ bit' = b1
           /\ shifted' = r1
           /\ visited' = Append(visited, <<limb_idx, divisor_idx>>)
           /\ IF r1 >= d
              THEN /\ r' = r1 - d
                   /\ q_limb' = q_limb + 2 ^ divisor_idx
              ELSE /\ r' = r1
                   /\ q_limb' = q_limb
    /\ j' = j + 1
    /\ pc' = IF j + 1 < LimbBits THEN "bit_step" ELSE "append"
    /\ UNCHANGED <<a, b, d, a_h, a_l, b_h, b_l, limbs, q_limbs, i, qoutient>>

\* Variant of the append that puts each new quotient limb first.
AppendLimb_Prepend ==
    /\ pc = "append"
    /\ q_limbs' = <<q_limb>> \o q_limbs
    /\ i' = i + 1
    /\ IF i + 1 < NumLimbs
       THEN /\ q_limb' = 0
            /\ j' = 0
            /\ pc' = "bit_step"
       ELSE /\ UNCHANGED <<q_limb, j>>
            /\ pc' = "assemble"
    /\ UNCHANGED <<a, b, d, a_h, a_l, b_h, b_l, limbs, r, qoutient, bit, shifted, visited>>

\* Line 76 and the advance of the outer loop (lines 64-66).
AppendLimb ==
    /\ pc = "append"
    /\ q_limbs' = Append(q_limbs, q_limb)
    /\ i' = i + 1
    /\ IF i + 1 < NumLimbs
       THEN /\ q_limb' = 0
            /\ j' = 0
            /\ pc' = "bit_step"
       ELSE /\ UNCHANGED <<q_limb, j>>
            /\ pc' = "assemble"
    /\ UNCHANGED <<a, b, d, a_h, a_l, b_h, b_l, limbs, r, qoutient, bit, shifted, visited>>

\* Lines 78-82: assemble the quotient and check the reconstruction.
AssembleQuotient ==
    /\ pc = "assemble"
    /\ qoutient' = QuotientValue(q_limbs)
    /\ pc' = IF Reference = qoutient' * d + r THEN "done" ELSE "quotient_assert_failed"
    /\ UNCHANGED <<a, b, d, a_h, a_l, b_h, b_l, limbs, r, q_limbs, q_limb, i, j,
                   bit, shifted, visited>>

Next ==
    \/ Decompose
    \/ Multiply
    \/ CheckProduct
    \/ StartDivide
    \/ BitStep
    \/ AppendLimb
    \/ AssembleQuotient

NextDivider ==
    \/ StartDivide
    \/ BitStep
    \/ AppendLimb
    \/ AssembleQuotient

Spec == Init /\ [][Next]_vars

SpecDivider == InitDivider /\ [][NextDivider]_vars

SpecWide == InitWide /\ [][Next]_vars

SpecBoundary == InitBoundary /\ [][Next]_vars

----------------------------------------------------------------------------
(* Vocabulary of the properties *)

InLimbRange(x) == 0 <= x /\ x < SCALE

Failed == {"decompose_assert_failed", "product_assert_failed", "quotient_assert_failed"}

\* The divider has run all its passes.
DividerFinished == pc \in {"assemble", "done", "quotient_assert_failed"}

\* The multiplier has appended its four limbs.
ProductBuilt == Len(limbs) = NumLimbs

\* The dividend as a number.
Dividend == LimbValue(limbs)

\* The number of bit steps taken so far.
StepsTaken == Len(visited)

\* The (limb_idx, divisor_idx) pairs of a divider that takes limb 3 first and,
\* within a limb, the top bit first.
ExpectedOrder ==
    [k \in 1 .. TotalBits |->
        << (NumLimbs - 1) - ((k - 1) \div LimbBits),
           (LimbBits - 1) - ((k - 1) % LimbBits) >>]

\* The number formed by the k most-significant bits of the dividend.
Prefix(k) == Dividend \div (2 ^ (TotalBits - k))

\* The number formed by the quotient limbs of a list, first limb most significant.
RECURSIVE SeqValue(_)
SeqValue(qs) ==
    IF qs = <<>> THEN 0
    ELSE SeqValue(SubSeq(qs, 1, Len(qs) - 1)) * SCALE + qs[Len(qs)]

\* A pass is in progress: q_limb holds the bits of the current pass.
InPass == pc \in {"bit_step", "append"}

\* The number formed by the quotient bits emitted so far, most significant first.
QuotientSoFar ==
    IF InPass
    THEN SeqValue(q_limbs) * (2 ^ j) + (q_limb \div (2 ^ (LimbBits - j)))
    ELSE SeqValue(q_limbs)

\* What is left to do: strictly smaller after every step of the divider.
Remaining ==
    (TotalBits - StepsTaken) + (NumLimbs - Len(q_limbs))
    + (CASE pc = "start_divide" -> 2
         [] pc \in {"bit_step", "append", "assemble"} -> 1
         [] OTHER -> 0)

----------------------------------------------------------------------------
(* Properties *)

\* C1: for all operands a, b in range, the four limbs of the multiplier
\* reassemble to a * b exactly and the product assertion never fails.
C1_MultiplicationExact ==
    /\ ProductBuilt => LimbValue(limbs) = a * b
    /\ pc # "product_assert_failed"

\* C1 witness: the largest operands, both carries of the chain non-zero, past
\* the product assertion.
C1_Witness ==
    /\ pc = "start_divide"
    /\ a = OperandLimit - 1 /\ b = OperandLimit - 1
    /\ carry_1 > 0 /\ carry_2 > 0

\* C2: for every in-range 4-limb dividend p and every divisor d > 0, after
\* all passes p = quotient * d + r, and the final assertion never fails.
C2_DivisionReconstruction ==
    d > 0 =>
        /\ DividerFinished => Dividend = QuotientValue(q_limbs) * d + r
        /\ pc = "done" => Dividend = qoutient * d + r
        /\ pc # "quotient_assert_failed"

\* C2 witness: a finished division with a quotient spanning several limbs and
\* a non-zero remainder.
C2_Witness ==
    /\ pc = "done"
    /\ d > 1 /\ r > 0
    /\ qoutient >= SCALE * SCALE
    /\ Dividend = qoutient * d + r

\* C3: for every in-range dividend and every divisor d > 0, the remainder
\* left when the divider completes satisfies 0 <= r < d.
C3_RemainderBound ==
    (DividerFinished /\ d > 0) => (0 <= r /\ r < d)

\* C3 witness: a finished division whose remainder is the largest possible.
C3_Witness ==
    /\ pc = "done"
    /\ d > 1
    /\ r = d - 1

\* C4: for all a, b in range and d > 0, every product limb and every quotient
\* limb is in [0, SCALE); the top limb is high(hh) + carry_2, unreduced.
C4_LimbInvariant ==
    /\ \A k \in 1 .. Len(limbs) : InLimbRange(limbs[k])
    /\ ProductBuilt => limbs[4] = get_high_low(pp_hh)[1] + carry_2
    /\ d > 0 => /\ \A k \in 1 .. Len(q_limbs) : InLimbRange(q_limbs[k])
                /\ InLimbRange(q_limb)

\* C4 witness: a finished run in which carry_2 went into the top limb and the
\* top limb is the largest a product can have.
C4_Witness ==
    /\ pc = "done"
    /\ d > 0
    /\ carry_2 > 0
    /\ limbs[4] = SCALE - 1
    /\ Len(q_limbs) = NumLimbs

\* C5: multiply(0, b) = 0 and multiply(1, b) = b for every b in range;
\* divide(0, d) = (0, 0) for every d > 0; divide(p, 1) = (p, 0) for every p.
C5_BoundaryCases ==
    /\ pc \notin Failed
    /\ (ProductBuilt /\ a = 0) => LimbValue(limbs) = 0
    /\ (ProductBuilt /\ a = 1) => LimbValue(limbs) = b
    /\ (pc = "done" /\ Dividend = 0 /\ d > 0) => (qoutient = 0 /\ r = 0)
    /\ (pc = "done" /\ d = 1) => (qoutient = Dividend /\ r = 0)

\* C5 witness: the largest dividend divided by 1.
C5_Witness ==
    /\ pc = "done"
    /\ d = 1
    /\ Dividend = SCALE ^ NumLimbs - 1
    /\ qoutient = Dividend

\* C6: for every dividend and every divisor, zero included, the divider
\* takes exactly NumLimbs * LimbBits bit steps, limb 3 down to limb 0 and
\* top bit down to bit 0, each bit once, appends exactly NumLimbs quotient
\* limbs, and terminates: a step is always possible until the end and each
\* step strictly lowers a non-negative measure.
C6_Termination ==
    /\ [](/\ StepsTaken <= TotalBits
          /\ visited = SubSeq(ExpectedOrder, 1, StepsTaken)
          /\ Len(q_limbs) <= NumLimbs
          /\ DividerFinished => (StepsTaken = TotalBits /\ Len(q_limbs) = NumLimbs)
          /\ Remaining >= 0
          /\ (pc \notin (Failed \cup {"done"})) => ENABLED NextDivider)
    /\ [][Remaining' < Remaining]_vars

\* C6 witness: divisor 0, all bit steps taken in order, four limbs appended.
C6_Witness ==
    /\ pc = "done"
    /\ d = 0
    /\ visited = ExpectedOrder
    /\ Len(q_limbs) = NumLimbs

\* C7: with d = 0 no assertion fails, r >= d holds in every bit step, every
\* quotient bit is set, r is never reduced, and the result has not r < d.
C7_DivideByZero ==
    d = 0 =>
        /\ pc # "quotient_assert_failed"
        /\ StepsTaken > 0 => shifted >= d
        /\ r = Prefix(StepsTaken)
        /\ InPass => q_limb = SCALE - 2 ^ (LimbBits - j)
        /\ \A k \in 1 .. Len(q_limbs) : q_limbs[k] = SCALE - 1
        /\ DividerFinished => ~(0 <= r /\ r < d)

\* C7 witness: a finished division by 0 of a non-zero dividend.
C7_Witness ==
    /\ pc = "done"
    /\ d = 0
    /\ Dividend > 0
    /\ r = Dividend
    /\ qoutient = SCALE ^ NumLimbs - 1

\* C8: for an operand at or above the 2-limb width, get_high_low returns a
\* high part >= SCALE and a low part < SCALE, and the decomposition check
\* still passes.
C8_OperandOverflowSilent ==
    /\ pc # "decompose_assert_failed"
    /\ (pc # "decompose" /\ a >= OperandLimit) =>
           (a_h >= SCALE /\ InLimbRange(a_l) /\ a_h * SCALE + a_l = a)
    /\ (pc # "decompose" /\ b >= OperandLimit) =>
           (b_h >= SCALE /\ InLimbRange(b_l) /\ b_h * SCALE + b_l = b)

\* C8 witness: an out-of-range a decomposed, the check passed.
C8_Witness ==
    /\ pc = "multiply"
    /\ a >= OperandLimit
    /\ a_h >= SCALE

\* C9: for every in-range dividend and d > 0, in each bit step the bit is
\* 0 or 1, the shifted value is below 2 * d and below twice the operand limit,
\* and after the step 0 <= r < d, r being the shifted value less at most one d.
C9_BoundedAccumulator ==
    (d > 0 /\ StepsTaken > 0) =>
        /\ bit \in {0, 1}
        /\ 0 <= shifted /\ shifted < 2 * d
        /\ shifted < 2 * OperandLimit
        /\ 0 <= r /\ r < d
        /\ r = IF shifted >= d THEN shifted - d ELSE shifted

\* C9 witness: a step in which the shifted value exceeded the operand range
\* and one subtraction brought it back below d.
C9_Witness ==
    /\ StepsTaken > 0
    /\ d > 0
    /\ bit = 1
    /\ shifted >= OperandLimit
    /\ r = shifted - d

\* C10: for every in-range dividend and d > 0, after k bit steps the number
\* formed by the k top bits of the dividend is Q_k * d + r with r < d, Q_k
\* being the quotient bits emitted so far; the bits of the current quotient
\* limb below the current position are still zero.
C10_LoopInvariant ==
    d > 0 =>
        /\ Prefix(StepsTaken) = QuotientSoFar * d + r
        /\ QuotientSoFar = Prefix(StepsTaken) \div d
        /\ r = Prefix(StepsTaken) % d
        /\ InPass => q_limb % (2 ^ (LimbBits - j)) = 0
        /\ StepsTaken = Len(q_limbs) * LimbBits + (IF InPass THEN j ELSE 0)

\* C10 witness: the middle of a pass, with quotient bits already emitted in
\* an earlier limb and in the current one, and a non-zero accumulator.
C10_Witness ==
    /\ pc = "bit_step"
    /\ d > 1
    /\ Len(q_limbs) = 2 /\ q_limbs[2] > 0
    /\ j = 1 /\ q_limb > 0
    /\ r > 0

====
